---- MODULE Spec2Model ----
(***************************************************************************)
(* Task-completion pollers of jbl-suno-dj.                                 *)
(*                                                                         *)
(* Three implementations of the wait for a music-generation task are       *)
(* modelled, each from its own source:                                     *)
(*   "voice"  - VoiceToSunoJBL.wait_for_music     (voice_to_suno_jbl.py)   *)
(*   "stream" - SunoStreamPlayer.wait_for_music   (suno_stream_player.py)  *)
(*   "robust" - RobustSunoClient.wait_for_completion, with check_status    *)
(*              and _make_request                 (robust_suno_client.py)  *)
(* One step of the model is one poll cycle of the wait loop: the sleep,    *)
(* the status GET(s), the reading of the response and, when the loop ends  *)
(* in that cycle, the return.                                              *)
(*                                                                         *)
(* Four specifications:                                                    *)
(*   Spec       - one wait, from its first poll to its return              *)
(*   SubmitSpec - the calls of generate_music and their creation POSTs     *)
(*   NormSpec   - the reading of one status payload in each of its shapes  *)
(*   ConcSpec   - two waits on different task ids sharing one client       *)
(***************************************************************************)
EXTENDS Integers, Sequences, FiniteSets, TLC

VARIABLES
    client,        \* which implementation runs this wait
    max_wait_time, \* wait_for_completion's parameter (0 for wait_for_music)
    pc,            \* "loop": the wait is running; "done": returned; "raised": an exception escaped
    state,         \* PENDING / READY / FAILED / REJECTED / TIMED_OUT: the exit the wait took
    tracks,        \* the list the wait returns (<<>> for [] and for None)
    attempt,       \* number of poll cycles started
    gets,          \* number of status GETs issued during the wait
    lastGets,      \* number of status GETs issued by the latest poll cycle
    now,           \* seconds since start_time (robust only)
    payload,       \* outcome of the latest poll cycle's final GET
    firstMissed,   \* the first poll cycle failed at transport level
    allTransport,  \* every poll cycle so far failed at transport level
    quiet,         \* every poll cycle so far fetched a payload with no sentinel and no usable URL
    message,       \* the service's error message the wait showed on its exit (None: none shown)
    calls,         \* generate_music: number of calls made
    posts,         \* generate_music: creation POSTs sent by the latest call
    sent,          \* generate_music: what each POST of the latest call came back with
    task_id,       \* generate_music: the value the latest call returned
    escaped,       \* generate_music: an exception escaped the latest call
    logical,       \* normalization: the track list the service reports
    shape,         \* normalization: the shape of the payload that carries it
    passes,        \* normalization: how often the payload was read
    first,         \* normalization: what the first reading gave
    result,        \* normalization: what the latest reading gave
    session,       \* concurrent waits: the headers of the client's shared session
    waits,         \* concurrent waits: per task id, the locals and result of its wait
    sess,          \* one session: the locals of run_voice_session / main and what it did
    suno,          \* a SunoClient: its construction, its requests and the files it wrote
    clipwait,      \* SunoClient.wait_for_completion: the locals of one call
    outcomes,      \* one _make_request call: what each urlopen would come back with
    req,           \* one _make_request call: whether it was made, and its result
    listen         \* listen_for_voice_command: its position, its locals, its timer thread

\* the variables of a wait
waitVars == <<client, max_wait_time, pc, state, tracks, attempt, gets, lastGets, now,
              payload, firstMissed, allTransport, quiet, message>>

\* the variables of a submission
submitVars == <<calls, posts, sent, task_id, escaped>>

\* the variables of the reading of one payload
normVars == <<logical, shape, passes, first, result>>

\* the variables of the waits that share one client
concVars == <<session, waits>>

\* the variables of a whole session
sessVars == <<sess>>

\* the variables of a SunoClient
sunoVars == <<suno, clipwait>>

\* the variables of one _make_request call
reqVars == <<outcomes, req>>

\* the variables of one listen_for_voice_command call
listenVars == <<listen>>

\* the variables of the components that follow the waits
laterVars == <<sessVars, sunoVars, reqVars, listenVars>>

\* what a wait leaves alone
besideWait == <<submitVars, normVars, concVars, laterVars>>

vars == <<waitVars, submitVars, normVars, concVars, laterVars>>

----------------------------------------------------------------------------
(* Bounds and program constants *)

\* longest sunoData / data list drawn as input
MaxTracks == 2
\* longest time (seconds) the GETs of one poll cycle take
MaxLatency == 1
\* largest max_wait_time passed to wait_for_completion
MaxWaitTime == 31

\* wait_for_music: max_attempts = 24
max_attempts == 24
\* wait_for_completion: check_interval default
check_interval == 15
\* _make_request: max_retries default
max_retries == 3
\* _make_request: wait_time = (attempt + 1) * 5 after 429/503/504
http_backoff == 5
\* _make_request: wait_time = (attempt + 1) * 10 after a network error
network_backoff == 10

----------------------------------------------------------------------------
(* JSON values of a status response *)

\* a key that is missing from a mapping
Absent == "<absent>"
\* JSON null / Python None
None == "<None>"

UrlA == "https://x/a.mp3"
UrlB == "https://x/b.mp3"

\* an element of a track list that is not a mapping (a string, a number, null)
NonMapping ==
    [dict |-> FALSE, id |-> Absent, title |-> Absent, streamAudioUrl |-> Absent,
     audio_url |-> Absent, tags |-> Absent, duration |-> Absent]

SongA ==
    [dict |-> TRUE, id |-> "t1", title |-> "Song A", streamAudioUrl |-> UrlA,
     audio_url |-> UrlA, tags |-> "rock", duration |-> "120"]

SongB ==
    [dict |-> TRUE, id |-> Absent, title |-> Absent, streamAudioUrl |-> UrlB,
     audio_url |-> Absent, tags |-> Absent, duration |-> Absent]

\* the service's placeholder for a track that has no stream yet
NullSong ==
    [dict |-> TRUE, id |-> "t1", title |-> "Song A", streamAudioUrl |-> "null",
     audio_url |-> "", tags |-> Absent, duration |-> None]

TrackItems == {SongA, SongB, NullSong, NonMapping}

TrackLists == UNION {[1..n -> TrackItems] : n \in 0..MaxTracks}

Statuses == {Absent, "PENDING", "SUCCESS", "SENSITIVE_WORD_ERROR", "FAILED"}

\* the outcome of one HTTP request: a transport failure, or a response body
Outcome(http, body, code, data, status, errorMessage, audio_url, response, sunoData, items) ==
    [http |-> http, body |-> body, code |-> code, data |-> data, status |-> status,
     errorMessage |-> errorMessage, audio_url |-> audio_url, response |-> response,
     sunoData |-> sunoData, items |-> items]

\* no request made yet
NoPayload == Outcome("none", "none", 0, "absent", Absent, Absent, Absent, "absent", "absent", <<>>)

\* a request that raised. "http_error": HTTPError with its status in code;
\* "network": URLError/OSError/ConnectionError/timeout; "unexpected": any other
\* exception of the request (a body that is not JSON)
Failure(kind, code) ==
    Outcome(kind, "none", code, "absent", Absent, Absent, Absent, "absent", "absent", <<>>)

TransportFailures ==
    {Failure("http_error", c) : c \in {404, 429, 503, 504}}
        \cup {Failure("network", 0), Failure("unexpected", 0)}

\* a body that is not a mapping, and a mapping whose code is not 200
BadBodies ==
    {Outcome("ok", "other", 0, "absent", Absent, Absent, Absent, "absent", "absent", <<>>),
     Outcome("ok", "dict", 400, "absent", Absent, Absent, Absent, "absent", "absent", <<>>)}

\* code 200 with data missing, null or a scalar
ScalarData ==
    {Outcome("ok", "dict", 200, d, Absent, Absent, Absent, "absent", "absent", <<>>) :
        d \in {"absent", "none", "other"}}

\* the lists that stand for "no track" and "a usable track" where every list
\* is read the same way
ShortLists == {<<>>, <<SongA>>}

\* code 200 with data a bare list of tracks
ListData ==
    {Outcome("ok", "dict", 200, "list", Absent, Absent, Absent, "absent", "absent", l) :
        l \in TrackLists}

\* data.status with data.errorMessage
StatusAndMessage ==
    {<<Absent, Absent>>, <<"PENDING", Absent>>, <<"SUCCESS", Absent>>,
     <<"SENSITIVE_WORD_ERROR", "bad words">>, <<"SENSITIVE_WORD_ERROR", Absent>>,
     <<"FAILED", "out of credits">>}

\* code 200 with data a mapping that has no response key: top-level track fields
FlatData ==
    {Outcome("ok", "dict", 200, "dict", sm[1], sm[2], u, "absent", "absent", <<>>) :
        sm \in StatusAndMessage, u \in {Absent, UrlA}}
    \cup {Outcome("ok", "dict", 200, "dict", "SUCCESS", Absent, "", "absent", "absent", <<>>)}

\* code 200 with data a mapping whose response is null or not a mapping
OddResponse ==
    {Outcome("ok", "dict", 200, "dict", sm[1], sm[2], Absent, r, "absent", <<>>) :
        sm \in {<<"PENDING", Absent>>, <<"SENSITIVE_WORD_ERROR", "bad words">>,
                <<"FAILED", "out of credits">>},
        r \in {"none", "other"}}

\* code 200 with data.response a mapping whose sunoData is missing, null or no list
OddSunoData ==
    {Outcome("ok", "dict", 200, "dict", "SUCCESS", Absent, Absent, "dict", sd, <<>>) :
        sd \in {"absent", "none", "other"}}

\* code 200 with data.response.sunoData a list: every list under SUCCESS, the
\* short lists under every status
NestedData ==
    {Outcome("ok", "dict", 200, "dict", "SUCCESS", Absent, Absent, "dict", "list", l) :
        l \in TrackLists}
    \cup {Outcome("ok", "dict", 200, "dict", sm[1], sm[2], Absent, "dict", "list", l) :
        sm \in StatusAndMessage, l \in ShortLists}

\* what the GET of a wait_for_music cycle can come back with
Payloads ==
    TransportFailures \cup BadBodies \cup ScalarData \cup FlatData
        \cup OddResponse \cup OddSunoData \cup NestedData
        \cup {p \in ListData : p.items \in ShortLists}

\* what the final GET of a check_status can come back with: wait_for_completion
\* reads data and its top-level keys only, so two nested payloads stand for all
RobustPayloads ==
    TransportFailures \cup BadBodies \cup ScalarData \cup ListData \cup FlatData
        \cup {p \in NestedData : p.status = "SUCCESS" /\ p.items \in ShortLists}

----------------------------------------------------------------------------
(* Reading a response *)

\* Python truth of a looked-up string value: None (also a missing key) and "" are false
Truthy(v) == v \notin {Absent, None, ""}

\* mapping.get(key, default): the default only for a missing key
Get(v, default) == IF v = Absent THEN default ELSE v

\* the conversion, were the keys read without defaults (track['title'])
ReadyTrackNoDefaults(track) ==
    [title |-> track.title,
     stream_url |-> track.streamAudioUrl,
     id |-> track.id,
     tags |-> track.tags,
     duration |-> track.duration]

\* the dict wait_for_music appends for a track
ReadyTrack(track) ==
    [title |-> Get(track.title, "Untitled"),
     stream_url |-> track.streamAudioUrl,
     id |-> Get(track.id, None),
     tags |-> Get(track.tags, ""),
     duration |-> Get(track.duration, None)]

\* the test of a stream URL, were the string "null" to count as a URL
StreamReadyNullIncluded(track) == Truthy(track.streamAudioUrl)

\* stream_url and stream_url != "null"
StreamReady(track) == Truthy(track.streamAudioUrl) /\ track.streamAudioUrl # "null"

\* the loop over suno_data, were it to insert each track at the front of the list
RECURSIVE VoiceReadyTracksReversed(_)
VoiceReadyTracksReversed(suno_data) ==
    IF suno_data = <<>> THEN <<>>
    ELSE LET track == Head(suno_data)
             rest  == VoiceReadyTracksReversed(Tail(suno_data))
         IN  IF track.dict /\ StreamReady(track)
             THEN rest \o <<ReadyTrack(track)>>
             ELSE rest

\* VoiceToSunoJBL: the loop over suno_data, skipping what is not a dict
RECURSIVE VoiceReadyTracks(_)
VoiceReadyTracks(suno_data) ==
    IF suno_data = <<>> THEN <<>>
    ELSE LET track == Head(suno_data)
             rest  == VoiceReadyTracks(Tail(suno_data))
         IN  IF track.dict /\ StreamReady(track)
             THEN <<ReadyTrack(track)>> \o rest
             ELSE rest

\* SunoStreamPlayer: the loop over suno_data; track.get raises on what is not a dict
RECURSIVE StreamReadyTracks(_)
StreamReadyTracks(suno_data) ==
    IF suno_data = <<>> THEN [raised |-> FALSE, tracks |-> <<>>]
    ELSE LET track == Head(suno_data)
             rest  == StreamReadyTracks(Tail(suno_data))
         IN  IF ~track.dict \/ rest.raised
             THEN [raised |-> TRUE, tracks |-> <<>>]
             ELSE IF StreamReady(track)
             THEN [raised |-> FALSE, tracks |-> <<ReadyTrack(track)>> \o rest.tracks]
             ELSE rest

\* what one pass through the loop body decides
Exit(kind, found) == [kind |-> kind, tracks |-> found]

\* the GET raised, the body is no mapping (result.get raises), or code is not 200:
\* the cycle reads nothing
NothingRead(p) == p.http # "ok" \/ p.body # "dict" \/ p.code # 200

\* the try block of one cycle, were it to return ready_tracks without testing it
VoiceCycleNoEmptyTest(p) ==
    IF NothingRead(p) THEN Exit("pending", <<>>)
    ELSE IF p.data \in {"none", "list", "other"} THEN Exit("pending", <<>>)
    ELSE IF p.status = "SENSITIVE_WORD_ERROR" THEN Exit("rejected", <<>>)
    ELSE IF p.status = "FAILED" THEN Exit("failed", <<>>)
    ELSE IF p.response # "dict" THEN Exit("pending", <<>>)
    ELSE IF p.sunoData # "list" THEN Exit("pending", <<>>)
    ELSE Exit("ready", VoiceReadyTracks(p.items))

\* VoiceToSunoJBL.wait_for_music, the try block of one cycle
VoiceCycle(p) ==
    IF NothingRead(p) THEN Exit("pending", <<>>)
    ELSE IF p.data \in {"none", "list", "other"} THEN Exit("pending", <<>>)  \* data.get raises
    ELSE IF p.status = "SENSITIVE_WORD_ERROR" THEN Exit("rejected", <<>>)
    ELSE IF p.status = "FAILED" THEN Exit("failed", <<>>)
    ELSE IF p.response # "dict" THEN Exit("pending", <<>>)  \* None: continue; no dict: suno_data None
    ELSE IF p.sunoData # "list" THEN Exit("pending", <<>>)
    ELSE LET ready_tracks == VoiceReadyTracks(p.items)
         IN  IF ready_tracks # <<>> THEN Exit("ready", ready_tracks)
             ELSE Exit("pending", <<>>)

\* the try block of one cycle, were a failed GET to end the wait
StreamCycleAborting(p) ==
    IF p.http # "ok" THEN Exit("failed", <<>>)
    ELSE IF NothingRead(p) THEN Exit("pending", <<>>)
    ELSE IF p.data \in {"none", "list", "other"} THEN Exit("pending", <<>>)
    ELSE IF p.response \in {"none", "other"} THEN Exit("pending", <<>>)
    ELSE IF p.response = "dict" /\ p.sunoData \in {"none", "other"}
         THEN Exit("pending", <<>>)
    ELSE LET r == StreamReadyTracks(p.items)
         IN  IF ~r.raised /\ r.tracks # <<>> THEN Exit("ready", r.tracks)
             ELSE Exit("pending", <<>>)

\* SunoStreamPlayer.wait_for_music, the try block of one cycle
StreamCycle(p) ==
    IF NothingRead(p) THEN Exit("pending", <<>>)
    ELSE IF p.data \in {"none", "list", "other"} THEN Exit("pending", <<>>)  \* data.get raises
    ELSE IF p.response \in {"none", "other"} THEN Exit("pending", <<>>)     \* .get raises
    ELSE IF p.response = "dict" /\ p.sunoData \in {"none", "other"}
         THEN Exit("pending", <<>>)                                         \* iteration raises
    ELSE LET r == StreamReadyTracks(p.items)
         IN  IF ~r.raised /\ r.tracks # <<>> THEN Exit("ready", r.tracks)
             ELSE Exit("pending", <<>>)

\* the text shown for a rejection, were it always the built-in advice
RejectionMessageBuiltIn(p) == "Please rephrase your prompt"

\* data.get('errorMessage', 'Please rephrase your prompt'), logged on SENSITIVE_WORD_ERROR
RejectionMessage(p) == Get(p.errorMessage, "Please rephrase your prompt")

\* data.get('errorMessage', 'Unknown error'), logged on FAILED
FailureMessage(p) == Get(p.errorMessage, "Unknown error")

\* the error message VoiceToSunoJBL.wait_for_music logs in the cycle that reads p
Logged(kind, p) ==
    CASE kind = "rejected" -> RejectionMessage(p)
      [] kind = "failed"   -> FailureMessage(p)
      [] OTHER             -> None

\* the state a cycle leaves, were the timeout test one attempt early
StateAfterOneEarly(kind, n) ==
    CASE kind = "rejected" -> "REJECTED"
      [] kind = "failed"   -> "FAILED"
      [] kind = "ready"    -> "READY"
      [] OTHER             -> IF n = max_attempts - 1 THEN "TIMED_OUT" ELSE "PENDING"

\* the state a wait_for_music cycle leaves, given the cycle's number
StateAfter(kind, n) ==
    CASE kind = "rejected" -> "REJECTED"
      [] kind = "failed"   -> "FAILED"
      [] kind = "ready"    -> "READY"
      [] OTHER             -> IF n = max_attempts THEN "TIMED_OUT" ELSE "PENDING"

\* the wait goes on exactly while no return was reached
PcAfter(st) == IF st = "PENDING" THEN "loop" ELSE "done"

\* a payload with no failure sentinel and no usable URL under any key
Quiet(p) ==
    /\ p.http = "ok"
    /\ p.status \notin {"SENSITIVE_WORD_ERROR", "FAILED"}
    /\ ~Truthy(p.audio_url)
    /\ \A i \in 1..Len(p.items) :
          ~Truthy(p.items[i].audio_url) /\ ~StreamReady(p.items[i])

----------------------------------------------------------------------------
(* RobustSunoClient *)

\* the failures answered with another attempt, were every HTTP error retried
RetriedAnyHttpError(o) == o.http \in {"http_error", "network"}

\* the failures _make_request answers with another attempt
Retried(o) ==
    \/ o.http = "http_error" /\ o.code \in {429, 503, 504}
    \/ o.http = "network"

\* the sleep before the next attempt, after the failure of 0-based attempt a
Backoff(o, a) ==
    IF o.http = "http_error" THEN (a + 1) * http_backoff ELSE (a + 1) * network_backoff

\* _make_request, were it to loop over range(max_retries + 1); the service goes
\* on failing the way it last did
RECURSIVE MakeRequestOneMore(_, _)
MakeRequestOneMore(outs, a) ==
    IF a >= max_retries + 1
    THEN [success |-> FALSE, status_code |-> 0, reply |-> NoPayload, gets |-> 0, slept |-> 0]
    ELSE LET o == IF a + 1 <= Len(outs) THEN outs[a + 1] ELSE outs[Len(outs)]
         IN  IF o.http = "ok"
             THEN [success |-> TRUE, status_code |-> 200, reply |-> o, gets |-> 1, slept |-> 0]
             ELSE IF Retried(o) /\ a < max_retries
             THEN LET r == MakeRequestOneMore(outs, a + 1)
                  IN  [r EXCEPT !.gets = @ + 1, !.slept = @ + Backoff(o, a)]
             ELSE [success |-> FALSE, status_code |-> o.code, reply |-> o,
                   gets |-> 1, slept |-> 0]

\* _make_request, were it to sleep after a failed last attempt as well
RECURSIVE MakeRequestSleepsLast(_, _)
MakeRequestSleepsLast(outs, a) ==
    IF a >= max_retries
    THEN [success |-> FALSE, status_code |-> 0, reply |-> NoPayload, gets |-> 0, slept |-> 0]
    ELSE LET o == outs[a + 1]
         IN  IF o.http = "ok"
             THEN [success |-> TRUE, status_code |-> 200, reply |-> o, gets |-> 1, slept |-> 0]
             ELSE IF Retried(o) /\ a < max_retries - 1
             THEN LET r == MakeRequestSleepsLast(outs, a + 1)
                  IN  [r EXCEPT !.gets = @ + 1, !.slept = @ + Backoff(o, a)]
             ELSE [success |-> FALSE, status_code |-> o.code, reply |-> o,
                   gets |-> 1, slept |-> IF Retried(o) THEN Backoff(o, a) ELSE 0]

\* _make_request: outs[a + 1] is what the a-th urlopen comes back with.
\* gets counts the requests sent, slept the seconds of time.sleep.
RECURSIVE MakeRequest(_, _)
MakeRequest(outs, a) ==
    IF a >= max_retries
    THEN [success |-> FALSE, status_code |-> 0, reply |-> NoPayload, gets |-> 0, slept |-> 0]
    ELSE LET o == outs[a + 1]
         IN  IF o.http = "ok"
             THEN [success |-> TRUE, status_code |-> 200, reply |-> o, gets |-> 1, slept |-> 0]
             ELSE IF Retried(o) /\ a < max_retries - 1
             THEN LET r == MakeRequest(outs, a + 1)
                  IN  [r EXCEPT !.gets = @ + 1, !.slept = @ + Backoff(o, a)]
             ELSE [success |-> FALSE, status_code |-> o.code, reply |-> o,
                   gets |-> 1, slept |-> 0]

\* check_status, were it to read result['data'] of a failed request (KeyError)
CheckStatusReadsFailure(r) ==
    IF ~r.success THEN [raised |-> TRUE, data |-> "none"]
    ELSE IF r.reply.body # "dict" THEN [raised |-> TRUE, data |-> "none"]
    ELSE IF r.reply.code # 200 \/ r.reply.data = "absent" THEN [raised |-> FALSE, data |-> "none"]
    ELSE [raised |-> FALSE, data |-> r.reply.data]

\* check_status: the data of a code-200 reply, None otherwise; result['data'].get
\* raises when the body is not a mapping
CheckStatus(r) ==
    IF ~r.success THEN [raised |-> FALSE, data |-> "none"]
    ELSE IF r.reply.body # "dict" THEN [raised |-> TRUE, data |-> "none"]
    ELSE IF r.reply.code # 200 \/ r.reply.data = "absent" THEN [raised |-> FALSE, data |-> "none"]
    ELSE [raised |-> FALSE, data |-> r.reply.data]

\* a mapping status_data, seen as the one track wait_for_completion makes of it
FlatTrack(p) ==
    [dict |-> TRUE, id |-> Absent, title |-> Absent, streamAudioUrl |-> Absent,
     audio_url |-> p.audio_url, tags |-> Absent, duration |-> Absent]

\* the loop over tracks; track.get raises on what is not a dict
RECURSIVE CompletedTracks(_)
CompletedTracks(trks) ==
    IF trks = <<>> THEN [raised |-> FALSE, tracks |-> <<>>]
    ELSE LET track == Head(trks)
             rest  == CompletedTracks(Tail(trks))
         IN  IF ~track.dict \/ rest.raised
             THEN [raised |-> TRUE, tracks |-> <<>>]
             ELSE IF Truthy(track.audio_url)
             THEN [raised |-> FALSE, tracks |-> <<track>> \o rest.tracks]
             ELSE rest

\* wait_for_completion, one pass through the loop body up to the return of
\* completed tracks (an empty list, an empty mapping and a scalar give no track)
RobustCycle(r) ==
    LET st == CheckStatus(r)
        p  == r.reply
    IN  IF st.raised THEN Exit("raised", <<>>)
        ELSE IF st.data \in {"none", "other"} THEN Exit("pending", <<>>)
        ELSE LET c == CompletedTracks(IF st.data = "list" THEN p.items ELSE <<FlatTrack(p)>>)
             IN  IF c.raised THEN Exit("raised", <<>>)
                 ELSE IF c.tracks # <<>> THEN Exit("ready", c.tracks)
                 ELSE Exit("pending", <<>>)

\* the while condition of wait_for_completion
InTime(t, limit) == t < limit

\* after a cycle with no completed track: sleep and test the while condition, or break
SleepsAgain(elapsed, limit) == elapsed + check_interval < limit

\* the outcomes of the attempts of one _make_request: failures that are retried,
\* then an outcome that ends the call
RetriedFailures == {Failure("http_error", 503), Failure("network", 0)}

AttemptOutcomes ==
    {pre \o <<last>> :
        pre \in UNION {[1..n -> RetriedFailures] : n \in 0..(max_retries - 1)},
        last \in RobustPayloads}

\* every attempt but the last read is retried, and the call ends at the last
Complete(outs) ==
    /\ \A i \in 1..(Len(outs) - 1) : Retried(outs[i])
    /\ Len(outs) < max_retries => ~Retried(outs[Len(outs)])

\* the values of max_wait_time the wait is called with
WaitTimes == {2 * check_interval, MaxWaitTime}

----------------------------------------------------------------------------
(* generate_music: the creation request *)

\* most calls of generate_music one caller makes
MaxCalls == 2

TaskId == "abc123"

\* what one creation POST comes back with. http and code as in Outcome; data is
\* the body's data ("dict" with its taskId, or missing, null, something else)
Created(http, code, body, data, taskId) ==
    [http |-> http, code |-> code, body |-> body, data |-> data, taskId |-> taskId]

CreationFailures ==
    {Created("http_error", c, "none", "absent", Absent) : c \in {401, 429, 503, 504}}
        \cup {Created("network", 0, "none", "absent", Absent),
              Created("unexpected", 0, "none", "absent", Absent)}

CreationReplies ==
    CreationFailures
        \cup {Created("ok", 0, "other", "absent", Absent),
              Created("ok", 400, "dict", "absent", Absent)}
        \cup {Created("ok", 200, "dict", d, Absent) : d \in {"absent", "none", "other"}}
        \cup {Created("ok", 200, "dict", "dict", t) : t \in {Absent, None, TaskId}}

\* what the call hands back: a task id or None, or an exception that escapes
Returned(id) == [escaped |-> FALSE, task_id |-> id]
Escaped == [escaped |-> TRUE, task_id |-> None]

\* VoiceToSunoJBL.generate_music after its one session.post: every exception of
\* the try block (raise_for_status, a body or data that has no .get) ends in None
VoiceGenerateMusic(o) ==
    IF o.http # "ok" \/ o.body # "dict" THEN Returned(None)
    ELSE IF o.code # 200 THEN Returned(None)
    ELSE IF o.data = "absent" THEN Returned(None)      \* {}.get('taskId')
    ELSE IF o.data # "dict" THEN Returned(None)        \* AttributeError, caught
    ELSE Returned(Get(o.taskId, None))

\* SunoStreamPlayer.generate_music after its one session.post
StreamGenerateMusic(o) ==
    IF o.http # "ok" \/ o.body # "dict" THEN Returned(None)
    ELSE IF o.code # 200 THEN Returned(None)
    ELSE IF o.data = "absent" THEN Returned(None)
    ELSE IF o.data # "dict" THEN Returned(None)
    ELSE Returned(Get(o.taskId, None))

\* RobustSunoClient.generate_music after _make_request: no try block, so a body
\* or data that has no .get raises out of the call
RobustGenerateMusic(r) ==
    IF ~r.success THEN Returned(None)
    ELSE IF r.reply.body # "dict" THEN Escaped
    ELSE IF r.reply.code # 200 THEN Returned(None)
    ELSE IF r.reply.data = "absent" THEN Returned(None)
    ELSE IF r.reply.data # "dict" THEN Escaped
    ELSE Returned(Get(r.reply.taskId, None))

\* the failures of a creation POST that _make_request answers with another POST
RetriedCreations ==
    {Created("http_error", 503, "none", "absent", Absent),
     Created("network", 0, "none", "absent", Absent)}

\* the outcomes of the attempts of generate_music's one _make_request
CreationAttempts ==
    {pre \o <<last>> :
        pre \in UNION {[1..n -> RetriedCreations] : n \in 0..(max_retries - 1)},
        last \in CreationReplies}

\* no generate_music call was made
NotSubmitting ==
    /\ calls = 0
    /\ posts = 0
    /\ sent = <<>>
    /\ task_id = None
    /\ escaped = FALSE

----------------------------------------------------------------------------
(* The shapes of a status payload *)

\* how often one payload is read
MaxPasses == 2

\* a track whose URL is the string "null" under both keys
NullUrlSong ==
    [dict |-> TRUE, id |-> "t2", title |-> "Song N", streamAudioUrl |-> "null",
     audio_url |-> "null", tags |-> Absent, duration |-> Absent]

ReportedItems == TrackItems \cup {NullUrlSong}

ReportedLists == UNION {[1..n -> ReportedItems] : n \in 0..MaxTracks}

\* "flat": data is one track mapping; "nested": data.response.sunoData is the
\* list; "bare": data is the list; "both": sunoData is the list and data also
\* has top-level track fields; "response_only": data has a response mapping
\* without sunoData beside its top-level track fields; the others carry no track
TrackShapes == {"flat", "nested", "bare", "both", "response_only"}
OddShapes == {"none", "scalar", "null_response", "null_sunoData"}
Shapes == TrackShapes \cup OddShapes

\* a single mapping can carry one track only
Fits(sh, l) ==
    /\ sh \in {"flat", "response_only"} => (Len(l) = 1 /\ l[1].dict)
    /\ sh \in OddShapes => l = <<>>

\* the body of the status GET that carries list l in shape sh
Wrap(sh, l) ==
    CASE sh = "flat" ->
           Outcome("ok", "dict", 200, "dict", Absent, Absent, l[1].audio_url,
                   "absent", "absent", <<>>)
      [] sh = "nested" ->
           Outcome("ok", "dict", 200, "dict", "SUCCESS", Absent, Absent, "dict", "list", l)
      [] sh = "bare" ->
           Outcome("ok", "dict", 200, "list", Absent, Absent, Absent, "absent", "absent", l)
      [] sh = "both" ->
           Outcome("ok", "dict", 200, "dict", "SUCCESS", Absent, UrlB, "dict", "list", l)
      [] sh = "response_only" ->
           Outcome("ok", "dict", 200, "dict", "SUCCESS", Absent, l[1].audio_url,
                   "dict", "absent", <<>>)
      [] sh = "none" ->
           Outcome("ok", "dict", 200, "none", Absent, Absent, Absent, "absent", "absent", <<>>)
      [] sh = "scalar" ->
           Outcome("ok", "dict", 200, "other", Absent, Absent, Absent, "absent", "absent", <<>>)
      [] sh = "null_response" ->
           Outcome("ok", "dict", 200, "dict", "PENDING", Absent, Absent, "none", "absent", <<>>)
      [] sh = "null_sunoData" ->
           Outcome("ok", "dict", 200, "dict", "PENDING", Absent, Absent, "dict", "none", <<>>)

\* the URLs of the tracks wait_for_music returns
StreamUrls(ts) == [i \in 1..Len(ts) |-> ts[i].stream_url]

\* the URLs of the tracks wait_for_completion returns
AudioUrls(ts) == [i \in 1..Len(ts) |-> ts[i].audio_url]

\* what a reading of a payload gives: an exception out of the wait, or the URLs
\* of the tracks found ready
Reading(c, urls) == [raised |-> c.kind = "raised", urls |-> urls]

NotRead == [raised |-> FALSE, urls |-> <<>>]

\* a successful status GET, as check_status receives it from _make_request
Fetched(p) == [success |-> TRUE, status_code |-> 200, reply |-> p, gets |-> 1, slept |-> 0]

\* no payload is being read
NotNormalizing ==
    /\ logical = <<>>
    /\ shape = "none"
    /\ passes = 0
    /\ first = NotRead
    /\ result = NotRead

----------------------------------------------------------------------------
(* Waits that share one client *)

\* the task ids waited for at the same time
TaskIds == {"abc123", "def456"}

\* the headers the constructor sets: session.headers.update({...}) of
\* VoiceToSunoJBL, session_headers of RobustSunoClient
Constructed(c) ==
    IF c = "voice"
    THEN [Authorization |-> "Bearer key", ContentType |-> "application/json",
          UserAgent |-> "VoiceToSunoJBL/1.0", Accept |-> Absent]
    ELSE [Authorization |-> "Bearer key", ContentType |-> Absent,
          UserAgent |-> "RobustSunoClient/1.0", Accept |-> "application/json"]

\* the headers one request is sent with: a copy of the session's, with
\* Content-Type added to the copy when the request has a body
RequestHeaders(s, hasBody) ==
    IF hasBody THEN [s EXCEPT !.ContentType = "application/json"] ELSE s

\* the session after a request was sent with headers h: the copy was changed,
\* the session's own headers were not
SessionAfter(s, h) == s

\* max_wait_time of the concurrent wait_for_completion calls
ConcWaitTime == 2 * check_interval

\* a wait before its first poll; polls and last record the responses to this
\* wait's own GETs
NewWait ==
    [pc |-> "loop", state |-> "PENDING", attempt |-> 0, now |-> 0, returned |-> <<>>,
     said |-> None, polls |-> 0, last |-> NoPayload]

\* the status payloads the concurrent wait_for_music calls are answered with
ConcPayloads ==
    {Failure("network", 0),
     Outcome("ok", "dict", 200, "dict", "PENDING", Absent, Absent, "none", "absent", <<>>),
     Outcome("ok", "dict", 200, "dict", "SUCCESS", Absent, Absent, "dict", "list", <<NullSong>>),
     Outcome("ok", "dict", 200, "dict", "SUCCESS", Absent, Absent, "dict", "list", <<SongA>>),
     Outcome("ok", "dict", 200, "dict", "SENSITIVE_WORD_ERROR", "bad words", Absent,
             "absent", "absent", <<>>),
     Outcome("ok", "dict", 200, "dict", "FAILED", "out of credits", Absent,
             "absent", "absent", <<>>)}

\* the status payloads the concurrent wait_for_completion calls are answered with
ConcRobustPayloads ==
    {Failure("network", 0),
     Failure("http_error", 404),
     Outcome("ok", "dict", 200, "none", Absent, Absent, Absent, "absent", "absent", <<>>),
     Outcome("ok", "dict", 200, "list", Absent, Absent, Absent, "absent", "absent", <<SongA>>),
     Outcome("ok", "dict", 200, "dict", Absent, Absent, UrlA, "absent", "absent", <<>>)}

\* the attempts of one check_status of a concurrent wait
ConcAttempts ==
    {<<p>> : p \in ConcRobustPayloads}
        \cup {<<Failure("http_error", 503), p>> : p \in ConcRobustPayloads}

\* the loop counter of the wait for t, were it an attribute of the shared client
AttemptOfClient(w, t) ==
    LET other == CHOOSE u \in TaskIds : u # t
        both  == w[t].attempt + w[other].attempt
    IN  IF both < max_attempts THEN both ELSE max_attempts - 1

\* the loop counter of the wait for t: a local of its own call
AttemptOf(w, t) == w[t].attempt

\* run_voice_session after wait_for_music returned tracks
Announcement(trks) ==
    IF trks = <<>> THEN "Music generation timed out" ELSE "Your music is ready"

\* no client is shared
NotConcurrent ==
    /\ session = Constructed("voice")
    /\ waits = [t \in TaskIds |-> NewWait]

----------------------------------------------------------------------------
(* One session: run_voice_session and main *)

\* wait_for_music: time.sleep(15)
poll_sleep == 15
\* wait_for_completion: max_wait_time default, as main calls it
default_max_wait == 300

\* what listen_for_voice_command returns: None, an empty text, a request
Prompts == {None, "", "upbeat rock music"}

\* what play_on_jbl returns
PlayResults == {TRUE, FALSE}

\* the submissions main's generate_music is answered with
SessionCreations ==
    {<<o>> : o \in {x \in CreationReplies : ~Retried(x)}}
        \cup {<<Created("http_error", 503, "none", "absent", Absent),
                Created("ok", 200, "dict", "dict", TaskId)>>}

\* the test of a returned string, were only None to count as nothing
GivenUnlessNone(v) == v # None

\* Python truth of a returned string or None
Given(v) == v \notin {None, ""}

\* a request that changes the remote job, were the status fetch to cancel it
StatusRequestCancelling(id) == [method |-> "DELETE", taskId |-> id]

\* the status fetch: GET .../record-info?taskId={task_id}
StatusRequest(id) == [method |-> "GET", taskId |-> id]

\* start_time, were it taken when the submission began
StartTimeAtSubmission(clock, submitted) == submitted

\* start_time = time.time() on entry of wait_for_completion
StartTime(clock, submitted) == clock

\* a session before its first stage. issued: the task id the service gave;
\* requests: the requests sent after the submission; submitted, entered: the
\* clock when the submission began and when the wait was entered; trace: the
\* stages run so far
NewSession ==
    [stage |-> "listen", prompt |-> None, task_id |-> None, issued |-> None,
     requests |-> {}, clock |-> 0, submitted |-> 0, entered |-> 0, start_time |-> 0,
     attempt |-> 0, state |-> "PENDING", tracks |-> <<>>, played |-> 0,
     stopped |-> FALSE, returned |-> None, trace |-> <<>>]

\* the session is over: the value run_voice_session / main returns
Over(s, value) == [s EXCEPT !.stage = "done", !.returned = value]

\* the status payloads a session's wait_for_music is answered with
SessionPayloads ==
    ConcPayloads
        \cup {Outcome("ok", "dict", 200, "dict", "SUCCESS", Absent, Absent, "dict", "list",
                      <<SongA, SongB>>)}

\* the attempts of one check_status of a session's wait_for_completion
SessionAttempts ==
    {<<Outcome("ok", "dict", 200, "none", Absent, Absent, Absent, "absent", "absent", <<>>)>>,
     <<Outcome("ok", "dict", 200, "list", Absent, Absent, Absent, "absent", "absent",
               <<SongA>>)>>,
     <<Failure("http_error", 503),
       Outcome("ok", "dict", 200, "none", Absent, Absent, Absent, "absent", "absent", <<>>)>>,
     <<Failure("http_error", 503), Failure("http_error", 503), Failure("http_error", 503)>>}

\* no session is running
NotInSession == sess = NewSession

----------------------------------------------------------------------------
(* SunoClient *)

\* the longest max_wait_time wait_for_completion is called with
MaxClipWait == 11
\* wait_for_completion: time.sleep(5)
clip_sleep == 5

\* SunoClient(cookie): the argument, and config.suno_cookie from the environment
Cookies == {None, "", "cookie"}
ConfigCookies == {None, "", "env-cookie"}

\* Python's a or b on strings and None
Or(a, b) == IF Truthy(a) THEN a ELSE b

\* a SongClip: the fields the client reads (the others keep their defaults)
SongClip(id, title, status, audio_url) ==
    [id |-> id, title |-> title, status |-> status, audio_url |-> audio_url]

\* what a constructor call leaves: the exception raised, the cookie kept and
\* whether requests.Session() was called
Built(raised, cookie, made) == [raised |-> raised, cookie |-> cookie, session |-> made]

\* __init__, were the HTTP session set up before the cookie is tested
SunoClientInitSessionFirst(cookie, configured) ==
    LET c == Or(cookie, configured)
    IN  IF ~Truthy(c) THEN Built("ValueError", c, TRUE) ELSE Built(None, c, TRUE)

\* SunoClient.__init__: the cookie is tested before the session is created
SunoClientInit(cookie, configured) ==
    LET c == Or(cookie, configured)
    IN  IF ~Truthy(c) THEN Built("ValueError", c, FALSE) ELSE Built(None, c, TRUE)

\* the clips download_song is called with
DownloadClips ==
    {SongClip("c1", t, st, u) :
        t \in {None, "Song A"}, st \in {"streaming", "complete"}, u \in {None, "", UrlA}}

\* what session.get(audio_url) comes back with
DownloadReplies == {"ok", "http_error", "network"}

\* title = song.title or f"song_{song.id}"; the file is named after it
FileName(song) == IF Truthy(song.title) THEN <<song.title, ".mp3">> ELSE <<"song_", song.id, ".mp3">>

\* what a download_song call did: the exception it raised, the URLs it
\* requested and the files it wrote
Downloaded(song, raised, asked, written) ==
    [song |-> song, raised |-> raised, gets |-> asked, files |-> written]

\* download_song, were the request sent before the URL is tested
DownloadSongRequestFirst(song, reply) ==
    IF reply # "ok" THEN Downloaded(song, reply, {<<"audio", song.audio_url>>}, {})
    ELSE IF ~Truthy(song.audio_url) THEN Downloaded(song, "ValueError", {<<"audio", song.audio_url>>}, {})
    ELSE Downloaded(song, None, {<<"audio", song.audio_url>>}, {FileName(song)})

\* SunoClient.download_song of a SongClip
DownloadSong(song, reply) ==
    IF ~Truthy(song.audio_url) THEN Downloaded(song, "ValueError", {}, {})
    ELSE IF reply # "ok" THEN Downloaded(song, reply, {<<"audio", song.audio_url>>}, {})
    ELSE Downloaded(song, None, {<<"audio", song.audio_url>>}, {FileName(song)})

\* no download_song call was made
NoDownload == Downloaded(SongClip("", None, "pending", None), None, {}, {})

\* no SunoClient was constructed
NoClient ==
    [pc |-> "none", built |-> Built(None, None, FALSE), gets |-> {}, files |-> {},
     last |-> NoDownload]

\* the ids of the clips of one generation
ClipIds == <<"c1", "c2">>

\* the audio URL of a clip
AudioOf(id) == IF id = "c1" THEN UrlA ELSE UrlB

\* a clip as generate_song returns it, and a clip that is complete already
Submitted(id) == SongClip(id, "Song", "submitted", None)
Finished(id) == SongClip(id, "Song", "complete", AudioOf(id))

\* the lists of clips wait_for_completion is called with
ClipLists ==
    {l \in UNION {[1..n -> {Submitted(i) : i \in {"c1", "c2"}}
                               \cup {Finished(i) : i \in {"c1", "c2"}}] : n \in 1..2} :
        \A k \in 1..Len(l) : l[k].id = ClipIds[k]}

\* what get_song_info(clip.id) comes back with: an exception, or the clip as the
\* service has it now
Raised == SongClip("", None, "raised", None)
SongInfos(id) ==
    {Raised,
     SongClip(id, "Song", "streaming", None),
     SongClip(id, "Song", "streaming", AudioOf(id)),
     SongClip(id, "Song", "complete", AudioOf(id))}

\* clip in completed_clips: the == of a dataclass compares every field
In(clip, completed_clips) == \E k \in 1..Len(completed_clips) : completed_clips[k] = clip

\* wait_for_completion, the for loop of one pass from clip i on. infos[k] is what
\* get_song_info answers for clips[k]; fetched collects the ids asked for, again
\* those asked for although a completed version was recorded
RECURSIVE ClipPass(_, _, _, _)
ClipPass(clips, i, completed_clips, infos) ==
    IF i > Len(clips)
    THEN [completed |-> completed_clips, fetched |-> {}, again |-> {}]
    ELSE LET clip == clips[i]
         IN  IF In(clip, completed_clips)
             THEN ClipPass(clips, i + 1, completed_clips, infos)
             ELSE LET updated_clip == infos[i]
                      kept == IF updated_clip # Raised /\ Truthy(updated_clip.audio_url)
                                 /\ updated_clip.status = "complete"
                              THEN Append(completed_clips, updated_clip)
                              ELSE completed_clips
                      rest == ClipPass(clips, i + 1, kept, infos)
                      had  == \E k \in 1..Len(completed_clips) :
                                  completed_clips[k].id = clip.id
                  IN  [rest EXCEPT !.fetched = @ \cup {clip.id},
                                   !.again = @ \cup (IF had THEN {clip.id} ELSE {})]

\* the while condition of wait_for_completion
Waiting(completed_clips, clips, elapsed, limit) ==
    Len(completed_clips) < Len(clips) /\ elapsed < limit

\* no wait_for_completion call was made
NoClipWait ==
    [pc |-> "idle", clips |-> <<>>, max_wait_time |-> 0, completed |-> <<>>, now |-> 0,
     passes |-> 0, again |-> {}]

\* no SunoClient is in use
NoSunoClient == suno = NoClient /\ clipwait = NoClipWait

----------------------------------------------------------------------------
(* One _make_request call *)

\* what one urlopen comes back with: a response, or one of the failures
AttemptKinds ==
    TransportFailures
        \cup {Outcome("ok", "dict", 200, "none", Absent, Absent, Absent, "absent", "absent", <<>>)}

\* what each of the max_retries attempts would come back with, were it made
OutcomeSequences == [1..max_retries -> AttemptKinds]

\* no call was made
NoRequest ==
    [done |-> FALSE,
     result |-> [success |-> FALSE, status_code |-> 0, reply |-> NoPayload, gets |-> 0,
                 slept |-> 0]]

\* no _make_request call is followed
NotRequesting == outcomes = <<>> /\ req = NoRequest

----------------------------------------------------------------------------
(* listen_for_voice_command and its countdown thread *)

\* listen_for_voice_command: record_seconds = 10
record_seconds == 10
\* the latest second at which the recording starts (the 3-second countdown)
MaxStart == 3
\* the clock is followed until every recording window has elapsed
Horizon == MaxStart + record_seconds

\* remaining, were the elapsed time not counted
RemainingWholeWindow(clock, start_time) == record_seconds

\* countdown_timer: remaining = max(0, record_seconds - elapsed)
Remaining(clock, start_time) ==
    IF record_seconds - (clock - start_time) > 0
    THEN record_seconds - (clock - start_time) ELSE 0

\* before the call. pc: where the method is; thread: where countdown_timer is;
\* listening, start_time: the locals the closure reads; clock: time.time()
NotStarted ==
    [pc |-> "countdown", thread |-> "unstarted", listening |-> FALSE, start_time |-> 0,
     clock |-> 0, returned |-> "nothing"]

\* no listen_for_voice_command call is followed
NotListening == listen = NotStarted

\* none of the later components is running
NothingLater == NotInSession /\ NoSunoClient /\ NotRequesting /\ NotListening

----------------------------------------------------------------------------
(* The waits *)

Clients == {"voice", "stream", "robust"}

Init ==
    /\ client \in Clients
    /\ max_wait_time \in (IF client = "robust" THEN WaitTimes ELSE {0})
    /\ pc = "loop"
    /\ state = "PENDING"
    /\ tracks = <<>>
    /\ attempt = 0
    /\ gets = 0
    /\ lastGets = 0
    /\ now = 0
    /\ payload = NoPayload
    /\ firstMissed = FALSE
    /\ allTransport = TRUE
    /\ quiet = TRUE
    /\ message = None
    /\ NotSubmitting
    /\ NotNormalizing
    /\ NotConcurrent
    /\ NothingLater

\* the loop, were a FAILED status to be polled again while attempts remain
RunningAfterFailed == pc = "loop" \/ (state = "FAILED" /\ attempt < max_attempts)

\* the wait has not returned
Running == pc = "loop"

\* what a cycle adds to the record of the wait so far
Note(p) ==
    /\ payload' = p
    /\ firstMissed' = (IF attempt = 0 THEN p.http # "ok" ELSE firstMissed)
    /\ allTransport' = (allTransport /\ p.http # "ok")
    /\ quiet' = (quiet /\ Quiet(p))

\* VoiceToSunoJBL.wait_for_music: sleep, one GET, read it, return or go on
VoicePoll ==
    /\ client = "voice"
    /\ Running
    /\ \E p \in Payloads :
          LET n  == attempt + 1
              c  == VoiceCycle(p)
              st == StateAfter(c.kind, n)
          IN  /\ attempt' = n
              /\ gets' = gets + 1
              /\ lastGets' = 1
              /\ state' = st
              /\ tracks' = c.tracks
              /\ pc' = PcAfter(st)
              /\ message' = Logged(c.kind, p)
              /\ Note(p)
    /\ UNCHANGED <<client, max_wait_time, now, besideWait>>

\* SunoStreamPlayer.wait_for_music: sleep, one GET, read it, return or go on
StreamPoll ==
    /\ client = "stream"
    /\ Running
    /\ \E p \in Payloads :
          LET n  == attempt + 1
              c  == StreamCycle(p)
              st == StateAfter(c.kind, n)
          IN  /\ attempt' = n
              /\ gets' = gets + 1
              /\ lastGets' = 1
              /\ state' = st
              /\ tracks' = c.tracks
              /\ pc' = PcAfter(st)
              /\ Note(p)
    /\ UNCHANGED <<client, max_wait_time, now, message, besideWait>>

\* RobustSunoClient.wait_for_completion: check_status (the attempts of one
\* _make_request), read the data, return, or sleep and test the time, or break
RobustPoll ==
    /\ client = "robust"
    /\ Running
    /\ \E outs \in AttemptOutcomes, latency \in 0..MaxLatency :
          /\ Complete(outs)
          /\ LET elapsed == now
                 r       == MakeRequest(outs, 0)
                 c       == RobustCycle(r)
                 t       == now + latency + r.slept
                 slept   == c.kind = "pending" /\ SleepsAgain(elapsed, max_wait_time)
                 t2      == IF slept THEN t + check_interval ELSE t
                 st      == CASE c.kind = "ready" -> "READY"
                              [] c.kind = "raised" -> "PENDING"
                              [] OTHER -> IF slept /\ InTime(t2, max_wait_time)
                                          THEN "PENDING" ELSE "TIMED_OUT"
             IN  /\ attempt' = attempt + 1
                 /\ gets' = gets + r.gets
                 /\ lastGets' = r.gets
                 /\ now' = t2
                 /\ state' = st
                 /\ tracks' = c.tracks
                 /\ pc' = IF c.kind = "raised" THEN "raised" ELSE PcAfter(st)
                 /\ Note(r.reply)
    /\ UNCHANGED <<client, max_wait_time, message, besideWait>>

Next == VoicePoll \/ StreamPoll \/ RobustPoll

Spec == Init /\ [][Next]_vars

TypeOK ==
    /\ client \in Clients
    /\ pc \in {"loop", "done", "raised"}
    /\ state \in {"PENDING", "READY", "FAILED", "REJECTED", "TIMED_OUT"}
    /\ attempt \in Nat /\ gets \in Nat /\ now \in Nat

----------------------------------------------------------------------------
(* The submissions *)

\* no wait was started
NotWaiting ==
    /\ max_wait_time = 0
    /\ pc = "idle"
    /\ state = "PENDING"
    /\ tracks = <<>>
    /\ attempt = 0
    /\ gets = 0
    /\ lastGets = 0
    /\ now = 0
    /\ payload = NoPayload
    /\ firstMissed = FALSE
    /\ allTransport = TRUE
    /\ quiet = TRUE
    /\ message = None

SubmitInit ==
    /\ client \in Clients
    /\ NotWaiting
    /\ NotSubmitting
    /\ NotNormalizing
    /\ NotConcurrent
    /\ NothingLater

\* the caller may call generate_music again, unless an exception ended it
MayCall == calls < MaxCalls /\ ~escaped

\* VoiceToSunoJBL.generate_music: one session.post, then the reading of the reply
VoiceSubmit ==
    /\ client = "voice"
    /\ MayCall
    /\ \E o \in CreationReplies :
          LET g == VoiceGenerateMusic(o)
          IN  /\ calls' = calls + 1
              /\ posts' = 1
              /\ sent' = <<o>>
              /\ task_id' = g.task_id
              /\ escaped' = g.escaped
    /\ UNCHANGED <<waitVars, normVars, concVars, laterVars>>

\* SunoStreamPlayer.generate_music: one session.post, then the reading of the reply
StreamSubmit ==
    /\ client = "stream"
    /\ MayCall
    /\ \E o \in CreationReplies :
          LET g == StreamGenerateMusic(o)
          IN  /\ calls' = calls + 1
              /\ posts' = 1
              /\ sent' = <<o>>
              /\ task_id' = g.task_id
              /\ escaped' = g.escaped
    /\ UNCHANGED <<waitVars, normVars, concVars, laterVars>>

\* RobustSunoClient.generate_music: the POSTs of one _make_request, then the
\* reading of its result
RobustSubmit ==
    /\ client = "robust"
    /\ MayCall
    /\ \E outs \in CreationAttempts :
          /\ Complete(outs)
          /\ LET r == MakeRequest(outs, 0)
                 g == RobustGenerateMusic(r)
             IN  /\ calls' = calls + 1
                 /\ posts' = r.gets
                 /\ sent' = outs
                 /\ task_id' = g.task_id
                 /\ escaped' = g.escaped
    /\ UNCHANGED <<waitVars, normVars, concVars, laterVars>>

SubmitNext == VoiceSubmit \/ StreamSubmit \/ RobustSubmit

SubmitSpec == SubmitInit /\ [][SubmitNext]_vars

----------------------------------------------------------------------------
(* The readings of one payload *)

NormInit ==
    /\ client \in Clients
    /\ NotWaiting
    /\ NotSubmitting
    /\ logical \in ReportedLists
    /\ shape \in Shapes
    /\ Fits(shape, logical)
    /\ passes = 0
    /\ first = NotRead
    /\ result = NotRead
    /\ NotConcurrent
    /\ NothingLater

\* the reading is recorded; the first one is kept for comparison
Read(r) ==
    /\ passes' = passes + 1
    /\ result' = r
    /\ first' = (IF passes = 0 THEN r ELSE first)
    /\ UNCHANGED <<logical, shape, waitVars, submitVars, concVars, laterVars>>

\* VoiceToSunoJBL.wait_for_music reads the payload
VoiceNormalize ==
    /\ client = "voice"
    /\ passes < MaxPasses
    /\ LET c == VoiceCycle(Wrap(shape, logical))
       IN  Read(Reading(c, StreamUrls(c.tracks)))

\* SunoStreamPlayer.wait_for_music reads the payload
StreamNormalize ==
    /\ client = "stream"
    /\ passes < MaxPasses
    /\ LET c == StreamCycle(Wrap(shape, logical))
       IN  Read(Reading(c, StreamUrls(c.tracks)))

\* RobustSunoClient.wait_for_completion reads the payload
RobustNormalize ==
    /\ client = "robust"
    /\ passes < MaxPasses
    /\ LET c == RobustCycle(Fetched(Wrap(shape, logical)))
       IN  Read(Reading(c, AudioUrls(c.tracks)))

NormNext == VoiceNormalize \/ StreamNormalize \/ RobustNormalize

NormSpec == NormInit /\ [][NormNext]_vars

----------------------------------------------------------------------------
(* The waits that share one client *)

ConcInit ==
    /\ client \in {"voice", "robust"}
    /\ NotWaiting
    /\ NotSubmitting
    /\ NotNormalizing
    /\ session = Constructed(client)
    /\ waits = [t \in TaskIds |-> NewWait]
    /\ NothingLater

\* one cycle of a VoiceToSunoJBL.wait_for_music call, through the shared session
ConcVoicePoll ==
    /\ client = "voice"
    /\ \E t \in TaskIds, p \in ConcPayloads :
          /\ waits[t].pc = "loop"
          /\ LET n  == AttemptOf(waits, t) + 1
                 c  == VoiceCycle(p)
                 st == StateAfter(c.kind, n)
                 h  == RequestHeaders(session, FALSE)
             IN  /\ waits' = [waits EXCEPT ![t] =
                                 [@ EXCEPT !.attempt = n, !.state = st, !.pc = PcAfter(st),
                                           !.returned = c.tracks, !.polls = @ + 1,
                                           !.last = p]]
                 /\ session' = SessionAfter(session, h)
    /\ UNCHANGED <<waitVars, submitVars, normVars, laterVars>>

\* one cycle of a RobustSunoClient.wait_for_completion call, its requests built
\* from the shared session_headers
ConcRobustPoll ==
    /\ client = "robust"
    /\ \E t \in TaskIds, outs \in ConcAttempts, latency \in 0..MaxLatency :
          /\ waits[t].pc = "loop"
          /\ Complete(outs)
          /\ LET elapsed == waits[t].now
                 r       == MakeRequest(outs, 0)
                 c       == RobustCycle(r)
                 t1      == elapsed + latency + r.slept
                 slept   == c.kind = "pending" /\ SleepsAgain(elapsed, ConcWaitTime)
                 t2      == IF slept THEN t1 + check_interval ELSE t1
                 st      == CASE c.kind = "ready" -> "READY"
                              [] c.kind = "raised" -> "PENDING"
                              [] OTHER -> IF slept /\ InTime(t2, ConcWaitTime)
                                          THEN "PENDING" ELSE "TIMED_OUT"
                 h       == RequestHeaders(session, FALSE)
             IN  /\ waits' = [waits EXCEPT ![t] =
                                 [@ EXCEPT !.attempt = @ + 1, !.state = st,
                                           !.pc = IF c.kind = "raised" THEN "raised"
                                                  ELSE PcAfter(st),
                                           !.now = t2, !.returned = c.tracks,
                                           !.polls = @ + 1, !.last = r.reply]]
                 /\ session' = SessionAfter(session, h)
    /\ UNCHANGED <<waitVars, submitVars, normVars, laterVars>>

\* run_voice_session after wait_for_music returned: the spoken status
Announce ==
    /\ client = "voice"
    /\ \E t \in TaskIds :
          /\ waits[t].pc = "done"
          /\ waits[t].said = None
          /\ waits' = [waits EXCEPT ![t].said = Announcement(waits[t].returned)]
    /\ UNCHANGED <<session, waitVars, submitVars, normVars, laterVars>>

ConcNext == ConcVoicePoll \/ ConcRobustPoll \/ Announce

ConcSpec == ConcInit /\ [][ConcNext]_vars

----------------------------------------------------------------------------
(* One session *)

SessionInit ==
    /\ client \in {"voice", "robust"}
    /\ NotWaiting
    /\ NotSubmitting
    /\ NotNormalizing
    /\ NotConcurrent
    /\ sess = NewSession
    /\ NoSunoClient
    /\ NotRequesting
    /\ NotListening

\* a step of the session; nothing else changes
Session(s) ==
    /\ sess' = s
    /\ UNCHANGED <<waitVars, submitVars, normVars, concVars, sunoVars, reqVars, listenVars>>

\* run_voice_session: prompt = self.listen_for_voice_command(); if not prompt: return False
VoiceListen ==
    /\ client = "voice"
    /\ sess.stage = "listen"
    /\ \E text \in Prompts :
          LET s == [sess EXCEPT !.prompt = text, !.trace = Append(@, "listen")]
          IN  Session(IF Given(text) THEN [s EXCEPT !.stage = "submit"] ELSE Over(s, "False"))

\* main: prompt = input(...).strip(); if not prompt: prompt = "upbeat song"
RobustInput ==
    /\ client = "robust"
    /\ sess.stage = "listen"
    /\ \E text \in Prompts \ {None} :
          Session([sess EXCEPT !.prompt = (IF Given(text) THEN text ELSE "upbeat song"),
                               !.trace = Append(@, "listen"), !.stage = "submit"])

\* run_voice_session: task_id = self.generate_music(prompt); if not task_id: return False
SessionVoiceSubmit ==
    /\ client = "voice"
    /\ sess.stage = "submit"
    /\ \E o \in CreationReplies, latency \in 0..MaxLatency :
          LET g == VoiceGenerateMusic(o)
              s == [sess EXCEPT !.task_id = g.task_id, !.issued = g.task_id,
                                !.submitted = sess.clock, !.clock = @ + latency,
                                !.trace = Append(@, "submit")]
          IN  Session(IF Given(g.task_id) THEN [s EXCEPT !.stage = "output"]
                      ELSE Over(s, "False"))

\* main: task_id = client.generate_music(prompt); if not task_id: return False.
\* An exception of generate_music ends main in its except block.
SessionRobustSubmit ==
    /\ client = "robust"
    /\ sess.stage = "submit"
    /\ \E outs \in SessionCreations, latency \in 0..MaxLatency :
          LET r == MakeRequest(outs, 0)
              g == RobustGenerateMusic(r)
              s == [sess EXCEPT !.task_id = g.task_id, !.issued = g.task_id,
                                !.submitted = sess.clock,
                                !.clock = @ + latency + r.slept,
                                !.trace = Append(@, "submit")]
          IN  Session(IF ~g.escaped /\ Given(g.task_id) THEN [s EXCEPT !.stage = "enter"]
                      ELSE Over(s, "False"))

\* run_voice_session: self.set_jbl_as_default(), its result unused, and the
\* announcement; then wait_for_music is entered
VoiceSetOutput ==
    /\ client = "voice"
    /\ sess.stage = "output"
    /\ \E latency \in 0..MaxLatency :
          Session([sess EXCEPT !.clock = @ + latency, !.entered = sess.clock + latency,
                               !.trace = Append(@, "output"), !.stage = "wait"])

\* wait_for_completion is entered: start_time = time.time()
RobustStartWait ==
    /\ client = "robust"
    /\ sess.stage = "enter"
    /\ Session([sess EXCEPT !.entered = sess.clock,
                            !.start_time = StartTime(sess.clock, sess.submitted),
                            !.stage = "wait"])

\* one cycle of wait_for_music(task_id) and, when it returns, run_voice_session's
\* test of the tracks
SessionVoicePoll ==
    /\ client = "voice"
    /\ sess.stage = "wait"
    /\ \E p \in SessionPayloads, latency \in 0..MaxLatency :
          LET n  == sess.attempt + 1
              c  == VoiceCycle(p)
              st == StateAfter(c.kind, n)
              s  == [sess EXCEPT !.attempt = n, !.state = st, !.tracks = c.tracks,
                                 !.requests = @ \cup {StatusRequest(sess.task_id)},
                                 !.clock = @ + poll_sleep + latency,
                                 !.trace = (IF sess.attempt = 0 THEN Append(@, "wait") ELSE @)]
          IN  Session(CASE st = "PENDING" -> s
                        [] st = "READY"   -> [s EXCEPT !.stage = "play"]
                        [] OTHER          -> Over(s, "False"))

\* one cycle of wait_for_completion(task_id) and, when it returns, main's test of
\* the tracks
SessionRobustPoll ==
    /\ client = "robust"
    /\ sess.stage = "wait"
    /\ \E outs \in SessionAttempts, latency \in 0..MaxLatency :
          LET elapsed == sess.clock - sess.start_time
              r       == MakeRequest(outs, 0)
              c       == RobustCycle(r)
              t1      == sess.clock + latency + r.slept
              slept   == c.kind = "pending" /\ SleepsAgain(elapsed, default_max_wait)
              t2      == IF slept THEN t1 + check_interval ELSE t1
              st      == IF c.kind = "ready" THEN "READY"
                         ELSE IF slept /\ InTime(t2 - sess.start_time, default_max_wait)
                         THEN "PENDING" ELSE "TIMED_OUT"
              s       == [sess EXCEPT !.attempt = @ + 1, !.state = st, !.tracks = c.tracks,
                                      !.requests = @ \cup {StatusRequest(sess.task_id)},
                                      !.clock = t2,
                                      !.trace = (IF sess.attempt = 0 THEN Append(@, "wait")
                                                 ELSE @)]
          IN  Session(CASE st = "PENDING" -> s
                        [] st = "READY"   -> [s EXCEPT !.stage = "play"]
                        [] OTHER          -> Over(s, "False"))

\* run_voice_session: for track in tracks: if not self.play_on_jbl(track): break;
\* then return True
VoicePlay ==
    /\ client = "voice"
    /\ sess.stage = "play"
    /\ \E ok \in PlayResults :
          LET s == [sess EXCEPT !.played = @ + 1, !.stopped = ~ok,
                                !.trace = (IF sess.played = 0 THEN Append(@, "play") ELSE @)]
          IN  Session(IF ~ok \/ s.played = Len(sess.tracks) THEN Over(s, "True") ELSE s)

\* main: every track is downloaded and, when the download gave a file, played;
\* then return True
RobustDeliver ==
    /\ client = "robust"
    /\ sess.stage = "play"
    /\ Session(Over([sess EXCEPT !.played = Len(sess.tracks), !.trace = Append(@, "play")],
                    "True"))

SessionNext ==
    \/ VoiceListen \/ RobustInput
    \/ SessionVoiceSubmit \/ SessionRobustSubmit
    \/ VoiceSetOutput \/ RobustStartWait
    \/ SessionVoicePoll \/ SessionRobustPoll
    \/ VoicePlay \/ RobustDeliver

SessionSpec == SessionInit /\ [][SessionNext]_vars

----------------------------------------------------------------------------
(* A SunoClient *)

SunoInit ==
    /\ client = "voice"
    /\ NotWaiting
    /\ NotSubmitting
    /\ NotNormalizing
    /\ NotConcurrent
    /\ NotInSession
    /\ NoSunoClient
    /\ NotRequesting
    /\ NotListening

\* what a SunoClient step leaves alone
BesideSuno ==
    UNCHANGED <<waitVars, submitVars, normVars, concVars, sessVars, reqVars, listenVars>>

\* SunoClient(cookie) with config.suno_cookie = configured
Construct ==
    /\ suno.pc = "none"
    /\ \E cookie \in Cookies, configured \in ConfigCookies :
          LET b == SunoClientInit(cookie, configured)
          IN  suno' = [suno EXCEPT !.built = b,
                                   !.pc = IF b.raised = None THEN "built" ELSE "failed"]
    /\ UNCHANGED clipwait
    /\ BesideSuno

\* client.download_song(song), on a client that is not waiting
Download ==
    /\ suno.pc = "built"
    /\ clipwait.pc = "idle"
    /\ \E song \in DownloadClips, reply \in DownloadReplies :
          LET d == DownloadSong(song, reply)
          IN  suno' = [suno EXCEPT !.last = d, !.gets = @ \cup d.gets,
                                   !.files = @ \cup d.files]
    /\ UNCHANGED clipwait
    /\ BesideSuno

\* client.wait_for_completion(clips, max_wait_time) is entered: start_time =
\* time.time(), completed_clips = []
StartClipWait ==
    /\ suno.pc = "built"
    /\ clipwait.pc = "idle"
    /\ suno.last = NoDownload
    /\ \E clips \in ClipLists, limit \in {clip_sleep, MaxClipWait} :
          clipwait' = [NoClipWait EXCEPT !.pc = "loop", !.clips = clips,
                                         !.max_wait_time = limit]
    /\ UNCHANGED suno
    /\ BesideSuno

\* one pass of the while loop: the for loop over the clips, the sleep, and the
\* test of the while condition
ClipWaitPass ==
    /\ clipwait.pc = "loop"
    /\ \E infos \in [1..Len(clipwait.clips) -> UNION {SongInfos(i) : i \in {"c1", "c2"}}],
          latency \in 0..MaxLatency :
          /\ \A k \in 1..Len(clipwait.clips) : infos[k] \in SongInfos(clipwait.clips[k].id)
          /\ LET r  == ClipPass(clipwait.clips, 1, clipwait.completed, infos)
                 t1 == clipwait.now + latency
                 t2 == IF Len(r.completed) < Len(clipwait.clips) THEN t1 + clip_sleep ELSE t1
             IN  /\ clipwait' =
                       [clipwait EXCEPT !.completed = r.completed, !.now = t2,
                                        !.passes = @ + 1,
                                        !.again = @ \cup r.again,
                                        !.pc = IF Waiting(r.completed, clipwait.clips, t2,
                                                          clipwait.max_wait_time)
                                               THEN "loop" ELSE "returned"]
                 /\ suno' = [suno EXCEPT !.gets = @ \cup {<<"feed", i>> : i \in r.fetched}]
    /\ BesideSuno

SunoNext == Construct \/ Download \/ StartClipWait \/ ClipWaitPass

SunoSpec == SunoInit /\ [][SunoNext]_vars

----------------------------------------------------------------------------
(* One _make_request call *)

ReqInit ==
    /\ client = "robust"
    /\ NotWaiting
    /\ NotSubmitting
    /\ NotNormalizing
    /\ NotConcurrent
    /\ NotInSession
    /\ NoSunoClient
    /\ NotListening
    /\ outcomes \in OutcomeSequences
    /\ req = NoRequest

\* self._make_request(endpoint): the for loop over range(max_retries) to its return
Request ==
    /\ ~req.done
    /\ req' = [done |-> TRUE, result |-> MakeRequest(outcomes, 0)]
    /\ UNCHANGED <<outcomes, waitVars, submitVars, normVars, concVars, sessVars, sunoVars,
                   listenVars>>

ReqNext == Request

ReqSpec == ReqInit /\ [][ReqNext]_vars

----------------------------------------------------------------------------
(* listen_for_voice_command *)

ListenInit ==
    /\ client = "voice"
    /\ NotWaiting
    /\ NotSubmitting
    /\ NotNormalizing
    /\ NotConcurrent
    /\ NotInSession
    /\ NoSunoClient
    /\ NotRequesting
    /\ listen = NotStarted

\* a step of the method or of its thread; nothing else changes
Listen(l) ==
    /\ listen' = l
    /\ UNCHANGED <<waitVars, submitVars, normVars, concVars, sessVars, sunoVars, reqVars>>

\* time passes
Tick ==
    /\ listen.clock < Horizon
    /\ Listen([listen EXCEPT !.clock = @ + 1])

\* after the countdown: listening = True; start_time = time.time()
BeginListening ==
    /\ listen.pc = "countdown"
    /\ listen.clock <= MaxStart
    /\ Listen([listen EXCEPT !.pc = "try", !.listening = TRUE, !.start_time = listen.clock])

\* timer_thread = threading.Thread(target=countdown_timer, daemon=True); timer_thread.start()
StartThread ==
    /\ listen.pc = "try"
    /\ Listen([listen EXCEPT !.pc = "recording", !.thread = "check"])

\* timer_thread.start() raises: except Exception clears the flag
StartThreadFails ==
    /\ listen.pc = "try"
    /\ Listen([listen EXCEPT !.pc = "handled", !.listening = FALSE])

\* self.recognizer.record(source, duration=record_seconds) returns: listening = False
RecordReturns ==
    /\ listen.pc = "recording"
    /\ Listen([listen EXCEPT !.pc = "recorded", !.listening = FALSE])

\* opening the microphone or recording raises an Exception: listening = False
RecordFails ==
    /\ listen.pc = "recording"
    /\ Listen([listen EXCEPT !.pc = "handled", !.listening = FALSE])

\* KeyboardInterrupt during the recording: except Exception does not catch it,
\* and it propagates out of the method with the flag still set
RecordInterrupted ==
    /\ listen.pc = "recording"
    /\ Listen([listen EXCEPT !.pc = "propagated"])

\* after time.sleep(0.2): return self.process_audio_with_service(audio), or the
\* except block when that raises
Process ==
    /\ listen.pc = "recorded"
    /\ \E text \in {"text", None, "raised"} :
          Listen([listen EXCEPT !.pc = "returned", !.listening = FALSE,
                                !.returned = IF text = "raised" THEN None ELSE text])

\* the except block, after time.sleep(0.2): return None
ReturnNone ==
    /\ listen.pc = "handled"
    /\ Listen([listen EXCEPT !.pc = "returned", !.returned = None])

\* countdown_timer: while listening; remaining > 0: print and sleep; else: break
TimerCheck ==
    /\ listen.thread = "check"
    /\ Listen([listen EXCEPT !.thread =
                  IF listen.listening /\ Remaining(listen.clock, listen.start_time) > 0
                  THEN "sleeping" ELSE "stopped"])

\* countdown_timer: time.sleep(0.1) is over
TimerWakes ==
    /\ listen.thread = "sleeping"
    /\ Listen([listen EXCEPT !.thread = "check"])

\* the steps of the timer thread
TimerStep == TimerCheck \/ TimerWakes

ListenNext ==
    \/ Tick
    \/ BeginListening
    \/ StartThread \/ StartThreadFails
    \/ RecordReturns \/ RecordFails \/ RecordInterrupted
    \/ Process \/ ReturnNone
    \/ TimerCheck \/ TimerWakes

ListenSpec == ListenInit /\ [][ListenNext]_vars

\* the clock advances, and the operating system schedules the timer thread
ListenFairSpec == ListenSpec /\ WF_vars(Tick) /\ WF_vars(TimerStep)

----------------------------------------------------------------------------
(* Vocabulary of the properties *)

WaitForMusic == {"voice", "stream"}

Terminal == {"READY", "FAILED", "REJECTED", "TIMED_OUT"}

\* the latest GET returned a code-200 body whose data is a mapping
GotStatusData == payload.http = "ok" /\ payload.body = "dict" /\ payload.code = 200
                    /\ payload.data = "dict"

\* the latest GET returned a status payload with this status field
GotStatus(s) == attempt > 0 /\ GotStatusData /\ payload.status = s

NoSentinel == payload.status \notin {"SENSITIVE_WORD_ERROR", "FAILED"}

\* a track mapping with a resolved stream URL
Usable(t) == t.dict /\ t.streamAudioUrl \notin {Absent, None, "", "null"}

\* the ready tracks of the latest payload, in payload order
UsableTracks == SelectSeq(payload.items, Usable)

AsReturned(ts) == [i \in 1..Len(ts) |-> ReadyTrack(ts[i])]

\* the latest payload is response.sunoData = [...], every element of it readable
\* by the client (SunoStreamPlayer reads mappings only)
GotSunoData ==
    /\ attempt > 0
    /\ GotStatusData
    /\ payload.response = "dict"
    /\ payload.sunoData = "list"
    /\ client = "stream" => \A i \in 1..Len(payload.items) : payload.items[i].dict

----------------------------------------------------------------------------
(* Properties *)

\* C1: a payload whose status is SENSITIVE_WORD_ERROR makes wait_for_music end
\* REJECTED on that very poll, with no track taken from the payload, and the
\* wait is over (no further poll).
C1_RejectedOnSentinel ==
    (client \in WaitForMusic /\ GotStatus("SENSITIVE_WORD_ERROR"))
        => (state = "REJECTED" /\ tracks = <<>> /\ pc = "done")

\* C2: a payload whose status is FAILED makes the poller end FAILED on that
\* poll: no retry, and never READY even when the payload carries usable tracks.
C2_FailedOnSentinel ==
    (client \in WaitForMusic /\ GotStatus("FAILED"))
        => (state = "FAILED" /\ state # "READY" /\ pc = "done")

\* C3: a payload with no failure sentinel whose sunoData holds one or more
\* tracks with a resolved stream URL makes wait_for_music end READY on that
\* poll, returning exactly those tracks in payload order.
C3_ReadyWithPayloadTracks ==
    (client \in WaitForMusic /\ GotSunoData /\ NoSentinel /\ UsableTracks # <<>>)
        => (state = "READY" /\ pc = "done" /\ tracks = AsReturned(UsableTracks))

\* C3 witness: poll 1 pending with response null, poll 2 with one sunoData
\* entry titled "Song A": READY with that single track.
C3_Witness ==
    /\ client \in WaitForMusic
    /\ attempt = 2
    /\ payload.status = "SUCCESS" /\ payload.sunoData = "list"
    /\ state = "READY"
    /\ Len(tracks) = 1
    /\ tracks[1].title = "Song A"

\* C4: the returned track list is non-empty exactly when the wait is READY;
\* PENDING, FAILED, REJECTED and TIMED_OUT go with the empty list.
C4_TracksIffReady == (tracks # <<>>) <=> (state = "READY")

\* C4 witness: a wait that returned ready tracks.
C4_Witness == pc = "done" /\ state = "READY" /\ Len(tracks) = 2

\* C5: once the wait is READY, FAILED, REJECTED or TIMED_OUT, no step changes
\* its state or tracks and no further status GET is issued.
C5_TerminalStatesStay ==
    [][(state \in Terminal) => (state' = state /\ tracks' = tracks /\ gets' = gets)]_vars

\* C5 witness: a wait that ended FAILED after an earlier pending poll.
C5_Witness == pc = "done" /\ state = "FAILED" /\ attempt = 2

\* max_wait / poll_interval, rounded up
CeilDiv(a, b) == (a + b - 1) \div b

\* the ceiling on the poll attempts of a wait
Ceiling == IF client = "robust" THEN CeilDiv(max_wait_time, check_interval) ELSE max_attempts

Completed(t) == t.audio_url \notin {Absent, None, ""}

\* the latest payload is a ready track set for the client
GotReadyTracks ==
    /\ attempt > 0
    /\ payload.http = "ok" /\ payload.body = "dict" /\ payload.code = 200
    /\ IF client = "robust"
       THEN \/ payload.data = "dict" /\ Completed(payload)
            \/ /\ payload.data = "list"
               /\ \A i \in 1..Len(payload.items) : payload.items[i].dict
               /\ \E i \in 1..Len(payload.items) : Completed(payload.items[i])
       ELSE GotSunoData /\ NoSentinel /\ UsableTracks # <<>>

\* the tracks the wait returns for that payload
ReadyTracksOfPayload ==
    IF client = "robust"
    THEN IF payload.data = "list" THEN SelectSeq(payload.items, Completed)
         ELSE <<FlatTrack(payload)>>
    ELSE AsReturned(UsableTracks)

\* C7: a transport failure on poll 1 does not abort the wait (it goes on, unless
\* the retries of that poll used up wait_for_completion's time), and a ready
\* track set on poll 2 then makes it READY with the tracks of poll 2.
C7_MissedTickThenReady ==
    /\ (attempt = 1 /\ firstMissed) =>
          \/ pc = "loop" /\ state = "PENDING"
          \/ /\ client = "robust" /\ pc = "done" /\ state = "TIMED_OUT"
             /\ now + check_interval >= max_wait_time
    /\ (attempt = 2 /\ firstMissed /\ GotReadyTracks)
          => (state = "READY" /\ pc = "done" /\ tracks = ReadyTracksOfPayload)

\* C7 witness: poll 1 failed, poll 2 brought tracks, the wait is READY.
C7_Witness ==
    attempt = 2 /\ firstMissed /\ GotReadyTracks /\ state = "READY" /\ client = "robust"

C9_NeverRaises == pc # "raised"

FailedPost(o) == o.http # "ok" \/ (o.body = "dict" /\ o.code # 200)

\* C11: a call of generate_music sends the creation POST at most once: after a
\* failed POST (transport error or non-success status, 429/503/504 included)
\* no second POST is sent by that call.
C11_OnePostPerCall == posts <= 1

\* C12: whenever a creation POST of the call met a transport error or a
\* non-success response code, the call failed and handed back no task id: a
\* task id is returned only by a call whose creation request succeeded.
C12_NoTaskAfterFailedPost ==
    (calls > 0 /\ \E i \in 1..Len(sent) : FailedPost(sent[i]))
        => (task_id = None /\ ~escaped)

\* the URL a client plays a track from
Url(t) == IF client = "robust" THEN t.audio_url ELSE t.streamAudioUrl

\* a reported track with a valid URL that is not "null"
Ready(t) == t.dict /\ Url(t) \notin {Absent, None, "", "null"}

\* the URLs of the ready tracks of the reported list, in its order
ReadyUrls ==
    LET ready == SelectSeq(logical, Ready)
    IN  [i \in 1..Len(ready) |-> Url(ready[i])]

\* the reported list holds track mappings only
AllMappings == \A i \in 1..Len(logical) : logical[i].dict

\* C13: a reported track list with a valid, non-"null" URL is read to the same
\* ready tracks whether it comes as one top-level mapping, nested under
\* response.sunoData, or as a bare sequence.
C13_SameTracksInEveryShape ==
    (passes > 0 /\ shape \in {"flat", "nested", "bare"} /\ AllMappings /\ ReadyUrls # <<>>)
        => (~result.raised /\ result.urls = ReadyUrls)

\* C14: the nested list is tried first and a missing sunoData falls through to
\* the top-level mapping: a payload with both a sunoData list and top-level
\* track fields is read from sunoData, and one with a response mapping that
\* has no sunoData is read from its top-level track fields.
C14_NestedFirstThenFallThrough ==
    (passes > 0 /\ shape \in {"both", "response_only"} /\ AllMappings)
        => (~result.raised /\ result.urls = ReadyUrls)

\* C15: the reading never raises, whatever the payload (null, scalar, a list of
\* non-mappings, a null response or sunoData), and a payload of no documented
\* shape is read to the empty track sequence.
C15_MalformedReadsEmpty ==
    passes > 0 => /\ ~result.raised
                  /\ shape \in OddShapes => result.urls = <<>>

\* C16: no track whose URL is "null", absent or empty is among the ready
\* tracks, and a second reading of the same payload gives the same ready tracks.
C16_NullUrlExcluded ==
    /\ \A i \in 1..Len(result.urls) : result.urls[i] \notin {"null", Absent, None, ""}
    /\ passes = MaxPasses => result = first

\* the latest poll returned status SUCCESS with a sunoData list of one or more
\* tracks, each with streamAudioUrl "null"
GotNullUrlsOnly ==
    /\ GotStatus("SUCCESS")
    /\ payload.response = "dict"
    /\ payload.sunoData = "list"
    /\ payload.items # <<>>
    /\ \A i \in 1..Len(payload.items) :
          payload.items[i].dict /\ payload.items[i].streamAudioUrl = "null"

\* C17: a SUCCESS poll whose sunoData tracks all have streamAudioUrl "null"
\* does not make wait_for_music READY: no track is returned on that poll, and
\* while attempts remain the task stays PENDING and the wait goes on polling.
C17_NullUrlsStayPending ==
    (client \in WaitForMusic /\ GotNullUrlsOnly) =>
        /\ state # "READY"
        /\ tracks = <<>>
        /\ attempt < max_attempts => (state = "PENDING" /\ pc = "loop")
        /\ attempt = max_attempts => (state = "TIMED_OUT" /\ pc = "done")

\* C17 witness: the second poll brought only "null" URLs and the wait goes on.
C17_Witness ==
    client \in WaitForMusic /\ GotNullUrlsOnly /\ attempt = 2 /\ Len(payload.items) = 2
        /\ state = "PENDING" /\ pc = "loop"

Unsuccessful == {"REJECTED", "FAILED", "TIMED_OUT"}

\* C18: two waits that ended in different states among REJECTED, FAILED and
\* TIMED_OUT return different values, and the caller's announcements after
\* them differ.
C18_TerminalStatesTellApart ==
    \A a, b \in TaskIds :
        (/\ waits[a].pc = "done" /\ waits[b].pc = "done"
         /\ waits[a].state \in Unsuccessful /\ waits[b].state \in Unsuccessful
         /\ waits[a].state # waits[b].state)
        => /\ waits[a].returned # waits[b].returned
           /\ (waits[a].said # None /\ waits[b].said # None)
                 => waits[a].said # waits[b].said

\* what the wait for a task is to be, given only the responses to its own GETs
OwnVerdict(w) ==
    IF client = "voice"
    THEN /\ w.attempt = w.polls
         /\ w.state = StateAfter(VoiceCycle(w.last).kind, w.polls)
         /\ w.returned = VoiceCycle(w.last).tracks
         /\ w.pc = PcAfter(w.state)
    ELSE LET c == RobustCycle(Fetched(w.last))
         IN  /\ w.pc # "raised"
             /\ (w.state = "READY") <=> (w.last.http = "ok" /\ c.kind = "ready")
             /\ w.state = "READY" => w.returned = c.tracks
             /\ w.state # "READY" => w.returned = <<>>
             /\ w.state = "TIMED_OUT" => w.now + check_interval >= ConcWaitTime
             /\ w.state = "PENDING" => (w.pc = "loop" /\ w.now < ConcWaitTime)

\* C20: under every interleaving of the waits that share one client, the
\* state and tracks of each wait are those its own responses determine, and
\* the headers of the shared session stay as the constructor set them.
C20_WaitsDoNotInterfere ==
    /\ session = Constructed(client)
    /\ \A t \in TaskIds :
          IF waits[t].polls = 0 THEN waits[t] = NewWait ELSE OwnVerdict(waits[t])

\* C20 witness: one wait was rejected on its first poll while the other, after
\* a missed poll, returned a track.
C20_Witness ==
    /\ client = "voice"
    /\ waits["abc123"].state = "REJECTED" /\ waits["abc123"].polls = 1
    /\ waits["def456"].state = "READY" /\ waits["def456"].polls = 2
    /\ Len(waits["def456"].returned) = 1

----------------------------------------------------------------------------
(* Properties of one session *)

\* C21: the task id obtained at submission is never changed by polling: every
\* status fetch of the wait is a GET for that same id, a wait that ended
\* TIMED_OUT has sent no cancellation or other changing request, and the caller
\* still holds the unchanged task id.
C21_TaskIdUnchangedByPolling ==
    sess.attempt > 0 =>
        /\ sess.requests = {StatusRequest(sess.issued)}
        /\ sess.task_id = sess.issued
        /\ sess.state = "TIMED_OUT" => \A q \in sess.requests : q.method = "GET"

\* a wait of several polls has ended TIMED_OUT
C21_Witness ==
    /\ sess.state = "TIMED_OUT"
    /\ sess.attempt > 1
    /\ sess.requests # {}
    /\ sess.stage = "done"

\* C22: the wait budget starts when the wait is entered, not at submission: a
\* wait ends TIMED_OUT only after its full budget has passed since it began
\* (24 polls 15 seconds apart for wait_for_music, max_wait_time less at most one
\* check_interval for wait_for_completion), however long the submission took.
C22_BudgetStartsAtTheWait ==
    sess.state = "TIMED_OUT" =>
        IF client = "voice"
        THEN /\ sess.attempt = max_attempts
             /\ sess.clock - sess.entered >= max_attempts * poll_sleep
        ELSE sess.clock - sess.entered + check_interval >= default_max_wait

\* a wait_for_completion that timed out after a submission that took time
C22_Witness ==
    /\ client = "robust"
    /\ sess.state = "TIMED_OUT"
    /\ sess.entered > sess.submitted
    /\ sess.attempt > 1

\* the stages of run_voice_session, in their order
Stages == <<"listen", "submit", "output", "wait", "play">>

\* C29: run_voice_session runs its stages in the fixed order listen, submit, set
\* output, wait, play: it submits only a recognised prompt, polls only with the
\* task id of a successful submission, plays only when wait_for_music returned
\* at least one ready track, stops playing at the first track whose playback
\* reports failure, and returns True only if tracks were ready.
C29_StagesInOrder ==
    client = "voice" =>
        /\ Len(sess.trace) <= Len(Stages)
        /\ \A i \in 1..Len(sess.trace) : sess.trace[i] = Stages[i]
        /\ Len(sess.trace) >= 2 => sess.prompt \notin {None, ""}
        /\ sess.attempt > 0 => sess.task_id = sess.issued /\ sess.task_id \notin {None, ""}
        /\ sess.played > 0 =>
              /\ sess.state = "READY"
              /\ sess.tracks # <<>>
              /\ sess.played <= Len(sess.tracks)
        /\ sess.stopped => sess.stage = "done"
        /\ sess.returned = "True" => sess.tracks # <<>> /\ sess.played > 0

\* two tracks were ready, the first one's playback failed and the session ended
C29_Witness ==
    /\ client = "voice"
    /\ sess.trace = Stages
    /\ Len(sess.tracks) = 2
    /\ sess.stopped
    /\ sess.played = 1
    /\ sess.returned = "True"

----------------------------------------------------------------------------
(* Properties of a SunoClient *)

\* C23: constructing SunoClient with no cookie, neither as argument nor in
\* config.suno_cookie, raises ValueError at once: no HTTP session was set up and
\* no request was sent; with a cookie the construction succeeds.
C23_NoCookieRaisesBeforeSession ==
    suno.pc # "none" =>
        /\ suno.built.raised = "ValueError" <=> suno.built.cookie \in {None, ""}
        /\ suno.built.raised = "ValueError" =>
              /\ suno.pc = "failed"
              /\ ~suno.built.session
              /\ suno.gets = {}
              /\ suno.files = {}

\* a construction without a cookie has raised
C23_Witness ==
    /\ suno.pc = "failed"
    /\ suno.built.raised = "ValueError"
    /\ suno.built.cookie = None

\* C24: download_song of a SongClip without audio URL raises ValueError before
\* any HTTP request and before any file is written; a download request is sent
\* only for a clip that has an audio URL.
C24_NoDownloadWithoutUrl ==
    /\ (suno.last # NoDownload /\ suno.last.song.audio_url \in {None, ""}) =>
          /\ suno.last.raised = "ValueError"
          /\ suno.last.gets = {}
          /\ suno.last.files = {}
    /\ \A g \in suno.gets : g[1] = "audio" => g[2] \notin {None, ""}
    /\ suno.files # {} => suno.gets # {}

\* a streaming clip without URL was refused on a client that has downloaded a file
C24_Witness ==
    /\ suno.last.raised = "ValueError"
    /\ suno.last.song.status = "streaming"
    /\ suno.last.song.audio_url = None
    /\ suno.files # {}

\* C26: wait_for_completion returns each input clip at most once: no clip id
\* appears twice in the returned list, a clip already recorded as completed is
\* not fetched again, and the loop ends before max_wait_time only when every
\* input clip has a fetched version with an audio URL and status "complete".
C26_EachClipReturnedOnce ==
    /\ clipwait.again = {}
    /\ clipwait.pc = "returned" =>
          /\ \A i, j \in 1..Len(clipwait.completed) :
                i # j => clipwait.completed[i].id # clipwait.completed[j].id
          /\ clipwait.now < clipwait.max_wait_time =>
                \A k \in 1..Len(clipwait.clips) :
                   \E j \in 1..Len(clipwait.completed) :
                      /\ clipwait.completed[j].id = clipwait.clips[k].id
                      /\ clipwait.completed[j].status = "complete"
                      /\ clipwait.completed[j].audio_url \notin {None, ""}

----------------------------------------------------------------------------
(* Properties of the conversion of a track *)

\* a track mapping that is converted: a mapping with a stream URL
Converted(t) == t.dict /\ t.streamAudioUrl \notin {Absent, None, "", "null"}

\* C25: converting a track mapping to a returned track never fails on absent
\* keys: a missing title reads 'Untitled', missing tags read '', a missing
\* duration and a missing id read None, and the stream URL is passed unchanged.
C25_AbsentKeysGetDefaults ==
    (client \in {"voice", "stream"} /\ state = "READY") =>
        LET src == SelectSeq(payload.items, Converted)
        IN  /\ Len(tracks) = Len(src)
            /\ \A i \in 1..Len(src) :
                  /\ tracks[i].title =
                        (IF src[i].title = Absent THEN "Untitled" ELSE src[i].title)
                  /\ tracks[i].tags = (IF src[i].tags = Absent THEN "" ELSE src[i].tags)
                  /\ tracks[i].duration =
                        (IF src[i].duration = Absent THEN None ELSE src[i].duration)
                  /\ tracks[i].id = (IF src[i].id = Absent THEN None ELSE src[i].id)
                  /\ tracks[i].stream_url = src[i].streamAudioUrl

\* a track that has only its stream URL was converted and returned
C25_Witness ==
    /\ client \in {"voice", "stream"}
    /\ state = "READY"
    /\ \E i \in 1..Len(tracks) :
          /\ tracks[i].title = "Untitled"
          /\ tracks[i].tags = ""
          /\ tracks[i].id = None
          /\ tracks[i].duration = None
          /\ tracks[i].stream_url = UrlB

----------------------------------------------------------------------------
(* Properties of one _make_request call *)

\* the seconds slept after the failures of the first n attempts
RECURSIVE SleptAfter(_)
SleptAfter(n) ==
    IF n = 0 THEN 0
    ELSE SleptAfter(n - 1)
            + (IF outcomes[n].http = "http_error" THEN n * http_backoff
               ELSE n * network_backoff)

\* C27: _make_request makes at most max_retries HTTP attempts, stops at the
\* first successful attempt and returns its result with success true, ends with
\* success false when no attempt succeeded, and sleeps only between attempts,
\* never after its final one.
C27_AtMostMaxRetriesAttempts ==
    req.done =>
        LET r == req.result
            n == r.gets
        IN  /\ n \in 1..max_retries
            /\ \A i \in 1..(n - 1) : outcomes[i].http # "ok"
            /\ r.success <=> outcomes[n].http = "ok"
            /\ r.success => r.reply = outcomes[n] /\ r.status_code = 200
            /\ (\A i \in 1..max_retries : outcomes[i].http # "ok") => ~r.success
            /\ r.slept = SleptAfter(n - 1)

\* all max_retries attempts failed with retried errors: two sleeps, failure
C27_Witness ==
    /\ req.done
    /\ req.result.gets = max_retries
    /\ ~req.result.success
    /\ req.result.reply.code = 503
    /\ req.result.slept = http_backoff + 2 * network_backoff

\* an error that is retried: HTTP 429, 503, 504 or a network error
Transient(o) == (o.http = "http_error" /\ o.code \in {429, 503, 504}) \/ o.http = "network"

\* C28: an HTTP error whose status is not 429, 503 or 504 and any unexpected
\* exception end the call at once with a failure result carrying that status (0
\* for exceptions); only 429/503/504 and network errors are followed by another
\* attempt, and only while attempts remain.
C28_OnlyTransientErrorsRetried ==
    req.done =>
        LET r == req.result
            n == r.gets
        IN  /\ \A i \in 1..(n - 1) : Transient(outcomes[i])
            /\ (outcomes[n].http # "ok" /\ ~Transient(outcomes[n])) =>
                  /\ ~r.success
                  /\ r.status_code = outcomes[n].code
                  /\ outcomes[n].http = "unexpected" => r.status_code = 0
            /\ Transient(outcomes[n]) => n = max_retries /\ ~r.success

\* a 404 after one retried error ended the call although an attempt remained
C28_Witness ==
    /\ req.done
    /\ req.result.gets = 2
    /\ outcomes[1].code = 429
    /\ outcomes[2].code = 404
    /\ req.result.status_code = 404
    /\ outcomes[3].http = "ok"

----------------------------------------------------------------------------
(* Properties of listen_for_voice_command *)

\* the countdown thread is running
TimerRunning == listen.thread \in {"check", "sleeping"}

\* C30: the countdown thread started by listen_for_voice_command always
\* terminates: whenever the method has returned, after a recording that
\* completed or raised, the listening flag is cleared; and once started, the
\* thread stops in every interleaving, by the flag or by itself when the
\* 10-second window has elapsed.
C30_TimerThreadTerminates ==
    /\ [](listen.pc = "returned" => ~listen.listening)
    /\ TimerRunning ~> listen.thread = "stopped"

\* the thread has stopped by itself although the flag was never cleared
C30_Witness ==
    /\ listen.thread = "stopped"
    /\ listen.listening
    /\ listen.pc = "propagated"
    /\ listen.clock - listen.start_time >= record_seconds

====
